---- MODULE Spec2Model ----
(***************************************************************************)
(* Document proxy of the RAG knowledge base (route handlers GET, POST and  *)
(* DELETE of /api/rag).  Each handler is a sequence of steps separated by  *)
(* the awaits of its outbound fetch calls; the remote document service is  *)
(* opaque and answers every call with any of the outcomes below.           *)
(* The module also holds the browser side: the hook useRAGKnowledgeBase    *)
(* with the wrappers it calls, and the cost calculator dashboard.  Spec    *)
(* runs the proxy with one request at a time, SpecConcurrent runs two      *)
(* requests interleaved, SpecClient runs the hook against the proxy, and   *)
(* SpecDashboard runs the dashboard.                                       *)
(* Strings whose characters matter (paths, file names) are sequences of    *)
(* one-character strings; opaque strings (ragId, chunks, texts) are TLA+   *)
(* strings.                                                                *)
(***************************************************************************)
EXTENDS Integers, Sequences, FiniteSets, TLC

VARIABLES
    \* the proxy: the credential, and per request its position, its input,
    \* its outbound calls and its response
    LYZR_API_KEY, pc, req, calls, resp,
    \* the hook: its three pieces of state, and the operations under way
    kbDocuments, kbLoading, kbError, ops,
    \* the dashboard: its pieces of state, the request to /api/agent, and
    \* the handler that ran last with the alert it showed
    problemStatement, monthlyQueries, conversationTurns, modelPreference,
    loading, result, showDetails, expandedSection, agent, handled

proxyVars == <<LYZR_API_KEY, pc, req, calls, resp>>

hookVars == <<kbDocuments, kbLoading, kbError, ops>>

dashboardVars ==
    <<problemStatement, monthlyQueries, conversationTurns, modelPreference,
      loading, result, showDetails, expandedSection, agent, handled>>

vars == <<proxyVars, hookVars, dashboardVars>>

(***************************************************************************)
(* Bounds                                                                  *)
(***************************************************************************)
\* longest list of paths / names / chunks a request or a remote answer holds
MaxDocs == 2

\* the requests the server handles at the same time
Requests == {"r1"}

(***************************************************************************)
(* Strings as sequences of characters                                      *)
(***************************************************************************)
\* the literal 'storage/'
STORAGE == <<"s", "t", "o", "r", "a", "g", "e", "/">>

\* String.prototype.startsWith
StartsWith(s, p) == Len(s) >= Len(p) /\ SubSeq(s, 1, Len(p)) = p

\* String.prototype.slice(n) for 0 <= n
Slice(s, n) == SubSeq(s, n + 1, Len(s))

\* String.prototype.toLowerCase on the letters the model uses
LowerChar(c) ==
    CASE c = "P" -> "p"
      [] c = "D" -> "d"
      [] c = "F" -> "f"
      [] c = "O" -> "o"
      [] c = "C" -> "c"
      [] c = "X" -> "x"
      [] OTHER -> c

ToLowerCase(s) == [i \in 1..Len(s) |-> LowerChar(s[i])]

\* the positions of '.' in s
DotPositions(s) == {i \in 1..Len(s) : s[i] = "."}

Max(S) == CHOOSE m \in S : \A x \in S : x <= m

\* s.split('.').pop() : the text after the last '.', the whole of s when it
\* holds no '.'
SplitPop(s) ==
    IF DotPositions(s) = {} THEN s ELSE Slice(s, Max(DotPositions(s)))

\* the file names and storage paths of the model
A_PDF == <<"a", ".", "p", "d", "f">>
B_DOCX == <<"b", ".", "D", "O", "C", "X">>
NOTES == <<"n", "o", "t", "e", "s">>
PDF_NAME == <<"p", "d", "f">>
C_PDF_TXT == <<"c", ".", "p", "d", "f", ".", "t", "x", "t">>

Stems == {A_PDF, B_DOCX, NOTES, PDF_NAME, C_PDF_TXT}

FileNames ==
    Stems \cup {STORAGE \o s : s \in {A_PDF, NOTES, PDF_NAME}}
          \cup {STORAGE \o STORAGE \o A_PDF}

\* the sequences over S of length at most n
SeqsUpTo(S, n) == UNION {[1..k -> S] : k \in 0..n}

(***************************************************************************)
(* JavaScript values read from a JSON body                                 *)
(***************************************************************************)
Undefined == [t |-> "undefined", items |-> <<>>]
JsNull == [t |-> "null", items |-> <<>>]
JsString(s) == [t |-> "string", items |-> s]
JsObject == [t |-> "object", items |-> <<>>]
JsArray(xs) == [t |-> "array", items |-> xs]

\* the truthiness `!v` tests
Truthy(v) ==
    CASE v.t \in {"undefined", "null"} -> FALSE
      [] v.t = "string" -> v.items # <<>>
      [] OTHER -> TRUE

\* Array.isArray
IsArray(v) == v.t = "array"

\* an array element that is not a string (a number): calling startsWith on
\* it raises a TypeError
NotAString == <<"#", "7">>

IsString(x) == x # NotAString

(***************************************************************************)
(* Requests                                                                *)
(***************************************************************************)
\* a request parameter that is not there (searchParams.get and formData.get
\* return null, a JSON body lacks the key)
NoRagId == "<null>"

RagIds == {NoRagId, "", "kb1", "kb2"}

\* mutant: only a ragId that is not there counts as missing
RagIdMissingIfNull(ragId) == ragId = NoRagId

\* `!ragId`
RagIdMissing(ragId) == ragId = NoRagId \/ ragId = ""

MIME_PDF == "application/pdf"
MIME_DOCX == "application/vnd.openxmlformats-officedocument.wordprocessingml.document"
MIME_TXT == "text/plain"

\* what a file can declare as its type: the three supported types, an
\* unsupported one, and a name every JavaScript object inherits
MimeTypes == {MIME_PDF, MIME_DOCX, MIME_TXT, "image/png", "constructor"}

NoFile == [name |-> "<null>", type |-> "<null>"]

Files == {[name |-> "upload", type |-> m] : m \in MimeTypes}

NoRequest ==
    [method |-> "none", ragId |-> NoRagId, file |-> NoFile,
     documents |-> Undefined, readable |-> TRUE]

(***************************************************************************)
(* Answers of the remote document service to one fetch                     *)
(***************************************************************************)
\* the texts of a remote error body; reading the body can also fail
Unreadable == "<unreadable>"

ErrorTexts == {"detail one", "detail two"}

\* the HTTP statuses the remote answers with
Statuses == {200, 403, 404, 500}

\* Response.ok
Ok(status) == status >= 200 /\ status <= 299

StatusText(status) ==
    CASE status = 200 -> "OK"
      [] status = 403 -> "Forbidden"
      [] status = 404 -> "Not Found"
      [] status = 500 -> "Internal Server Error"
      [] OTHER -> ""

\* the message of the exception a rejected fetch raises
FetchFailed == "fetch failed"
\* the message of the exception reading a body that is not JSON raises
NotJson == "Unexpected token"
\* the message of the TypeError raised by a property read on null or by
\* calling a method a value does not have
TypeErrorMessage == "TypeError"

NoAnswer ==
    [kind |-> "none", status |-> 0, text |-> "", json |-> Undefined,
     documents |-> Undefined]

Threw == [NoAnswer EXCEPT !.kind = "throw"]

\* a non-2xx answer with its body text
Failed(status, text) ==
    [NoAnswer EXCEPT !.kind = "http", !.status = status, !.text = text]

\* a 2xx answer whose body parses to json; documents is the "documents"
\* property of an object body
Answered(status, json, documents) ==
    [NoAnswer EXCEPT !.kind = "http", !.status = status, !.json = json,
                     !.documents = documents]

\* a body that is not JSON
InvalidJson == [t |-> "invalid", items |-> <<>>]

FailedAnswers ==
    {Failed(s, t) : s \in {x \in Statuses : ~Ok(x)},
                    t \in ErrorTexts \cup {Unreadable}}

\* the listing endpoint: an array of paths, another JSON value, no JSON
ListAnswers ==
    {Threw} \cup FailedAnswers
    \cup {Answered(200, j, Undefined) :
            j \in {InvalidJson, JsObject, JsArray(<<NotAString>>)}
                  \cup {JsArray(xs) : xs \in SeqsUpTo(FileNames, MaxDocs)}}

(***************************************************************************)
(* Outbound calls and responses                                            *)
(***************************************************************************)
\* one fetch: its endpoint (op), the path parameter (target), the form
\* fields of a parse call, the JSON body, and the answer once it completed
Call(op, target, parser, chunk, body) ==
    [op |-> op, target |-> target, parser |-> parser, chunk |-> chunk,
     body |-> body, answer |-> NoAnswer]

Absent == "<undefined>"

\* NextResponse.json(body, {status}); keys are the keys of body
NoResponse ==
    [success |-> FALSE, status |-> 0, keys |-> {}, error |-> <<>>,
     details |-> Absent, message |-> Absent, documents |-> <<>>,
     fileName |-> Absent, fileType |-> Absent, documentCount |-> -1,
     deletedCount |-> -1, ragId |-> Absent, timestamp |-> Absent]

\* mutant: the status option is left out, so the response has status 200
ErrorResponseNoStatus(error, status) ==
    [NoResponse EXCEPT !.status = 200, !.keys = {"success", "error"},
                       !.error = error]

\* {success: false, error} with a status
ErrorResponse(error, status) ==
    [NoResponse EXCEPT !.status = status, !.keys = {"success", "error"},
                       !.error = error]

\* {success: false, error, details} with a status
DetailedError(error, details, status) ==
    [NoResponse EXCEPT !.status = status,
                       !.keys = {"success", "error", "details"},
                       !.error = error, !.details = details]

ConfigError == ErrorResponse(<<"LYZR_API_KEY not configured in .env.local">>, 500)

\* new Date().toISOString()
Now == "now"

\* process.env.LYZR_API_KEY : undefined, empty or a key
ApiKeys == {"<undefined>", "", "key"}

\* mutant: only an undefined key counts as missing
KeyConfiguredIfDefined == LYZR_API_KEY # "<undefined>"

\* `!LYZR_API_KEY` is false
KeyConfigured == LYZR_API_KEY \notin {"<undefined>", ""}

(***************************************************************************)
(* Initial state of the hook and of the dashboard                          *)
(***************************************************************************)
\* the operations of the hook that can be under way at the same time
Operations == {"o1", "o2"}

\* useState<RAGDocument[] | null>(null) : null, or a list of documents
NoDocuments == [known |-> FALSE, items |-> <<>>]

KnownDocuments(items) == [known |-> TRUE, items |-> items]

\* useState<string | null>(null) : every error text is a non-empty list of
\* text pieces
NoError == <<>>

\* what a wrapper returns: the keys of the object and their values
NoResult == [success |-> FALSE, keys |-> {}, error |-> <<>>, documents |-> <<>>]

\* an operation of the hook: its arguments, whether it awaits its wrapper,
\* the HTTP requests the wrapper sent, what the wrapper returned, and what
\* passed between the proxy and the remote service while it was served
\* (reached: the proxy called the remote; remote: the paths the listing
\* returned, or the names the delete call carried)
NoOperation ==
    [kind |-> "none", ragId |-> NoRagId, file |-> NoFile,
     documentNames |-> Undefined, state |-> "idle", sent |-> 0,
     result |-> NoResult, reached |-> FALSE, remote |-> <<>>]

HookInit ==
    /\ kbDocuments = NoDocuments
    /\ kbLoading = FALSE
    /\ kbError = NoError
    /\ ops = [o \in Operations |-> NoOperation]

SAMPLE_PROBLEM == <<"b", "o", "t">>

SAMPLE_RESULT == "SAMPLE_RESULT"

MonthlyQueriesDefault == 1000

ConversationTurnsDefault == 3

ModelPreferenceDefault == "gpt-4o-mini"

\* the "response" property of the body /api/agent answers with: its type,
\* its text when it is a string, and the estimate it holds or spells
NoPayload == [t |-> "undefined", text |-> "", value |-> "none"]

\* no request to /api/agent is under way and none has been answered
NoOutcome == [kind |-> "none", success |-> FALSE, response |-> NoPayload]

\* the handler that ran last and the alert it showed
Handled(handler, alert) == [handler |-> handler, alert |-> alert]

DashboardInit ==
    /\ problemStatement = SAMPLE_PROBLEM
    /\ monthlyQueries = MonthlyQueriesDefault
    /\ conversationTurns = ConversationTurnsDefault
    /\ modelPreference = ModelPreferenceDefault
    /\ loading = FALSE
    /\ result = SAMPLE_RESULT
    /\ showDetails = FALSE
    /\ expandedSection = "setup"
    /\ agent = [inflight |-> 0, outcome |-> NoOutcome]
    /\ handled = Handled("none", "")

Init ==
    /\ LYZR_API_KEY \in ApiKeys
    /\ pc = [r \in Requests |-> "idle"]
    /\ req = [r \in Requests |-> NoRequest]
    /\ calls = [r \in Requests |-> <<>>]
    /\ resp = [r \in Requests |-> NoResponse]
    /\ HookInit
    /\ DashboardInit

\* the handler of r returns response x
Respond(r, x) ==
    /\ resp' = [resp EXCEPT ![r] = x]
    /\ pc' = [pc EXCEPT ![r] = "done"]

\* the handler of r issues fetch c and awaits it at label
Fetch(r, c, label) ==
    /\ calls' = [calls EXCEPT ![r] = Append(@, c)]
    /\ pc' = [pc EXCEPT ![r] = label]
    /\ UNCHANGED resp

\* mutant: the handler goes on without awaiting its fetch, which stays
\* outstanding
CompleteUnawaited(r, ans) == calls[r]

\* the pending fetch of r completes with answer ans
Complete(r, ans) == [calls[r] EXCEPT ![Len(calls[r])].answer = ans]

(***************************************************************************)
(* GET /api/rag?ragId=...                                                  *)
(***************************************************************************)
\* mutant: the first eight characters are dropped without looking at them
StripStorageAlways(docPath) == Slice(docPath, 8)

\* the file name of a storage path
StripStorage(docPath) ==
    IF StartsWith(docPath, STORAGE) THEN Slice(docPath, 8) ELSE docPath

\* the file type of a file name
FileTypeOf(fileName) ==
    LET ext == ToLowerCase(SplitPop(fileName))
    IN  IF ext = <<"p", "d", "f">> THEN "pdf"
        ELSE IF ext = <<"d", "o", "c", "x">> THEN "docx"
        ELSE "txt"

\* rawDocuments.map(...)
ToDocument(docPath) ==
    [fileName |-> StripStorage(docPath),
     fileType |-> FileTypeOf(StripStorage(docPath)),
     status |-> "active"]

\* mutant: the handler keeps the documents of a listing in the module and
\* serves them again while another request still holds them
ToDocumentsCached(rawDocuments) ==
    IF \E q \in DOMAIN resp : resp[q].documents # <<>>
    THEN resp[CHOOSE q \in DOMAIN resp : resp[q].documents # <<>>].documents
    ELSE IF IsArray(rawDocuments)
    THEN [i \in 1..Len(rawDocuments.items) |-> ToDocument(rawDocuments.items[i])]
    ELSE <<>>

ToDocuments(rawDocuments) ==
    IF IsArray(rawDocuments)
    THEN [i \in 1..Len(rawDocuments.items) |-> ToDocument(rawDocuments.items[i])]
    ELSE <<>>

\* mutant: a 404 of the listing is an error like any other
NeverNotFound(status) == FALSE

\* mutant: every 4xx of the listing counts as "no documents"
AnyClientErrorNotFound(status) == status >= 400 /\ status <= 499

\* response.status === 404
IsNotFound(status) == status = 404

\* the catch block of GET
GetCaught(message) == DetailedError(<<"Failed to fetch documents">>, message, 500)

\* mutant: the success response of the listing is built like that of a 404
ListSuccessBare(ragId, documents) ==
    [NoResponse EXCEPT !.success = TRUE, !.status = 200,
                       !.keys = {"success", "documents"},
                       !.documents = documents]

\* the success response of GET for a listing that answered 2xx
ListSuccess(ragId, documents) ==
    [NoResponse EXCEPT !.success = TRUE, !.status = 200,
                       !.keys = {"success", "documents", "ragId", "timestamp"},
                       !.documents = documents,
                       !.ragId = ragId, !.timestamp = Now]

\* the answer of GET to the completed listing call
ListResponse(ragId, ans) ==
    IF ans.kind = "throw" THEN GetCaught(FetchFailed)
    ELSE IF ~Ok(ans.status)
    THEN IF IsNotFound(ans.status)
         THEN [NoResponse EXCEPT !.success = TRUE, !.status = 200,
                                 !.keys = {"success", "documents"}]
         ELSE IF ans.text = Unreadable THEN GetCaught(FetchFailed)
         ELSE DetailedError(<<"Failed to fetch documents: ", StatusText(ans.status)>>,
                            ans.text, ans.status)
    ELSE IF ans.json = InvalidJson THEN GetCaught(NotJson)
    ELSE IF \E i \in 1..Len(ans.json.items) : ~IsString(ans.json.items[i])
    THEN GetCaught(TypeErrorMessage)
    ELSE ListSuccess(ragId, ToDocuments(ans.json))

\* GET up to its fetch
GET(r, ragId) ==
    /\ pc[r] = "idle"
    /\ req' = [req EXCEPT ![r] = [NoRequest EXCEPT !.method = "GET", !.ragId = ragId]]
    /\ IF ~KeyConfigured
       THEN Respond(r, ConfigError) /\ UNCHANGED calls
       ELSE IF RagIdMissing(ragId)
       THEN Respond(r, ErrorResponse(<<"ragId is required as a query parameter">>, 400))
            /\ UNCHANGED calls
       ELSE Fetch(r, Call("list", ragId, Absent, <<>>, <<>>), "list")
    /\ UNCHANGED <<LYZR_API_KEY, hookVars, dashboardVars>>

\* GET from the answer of the listing call on
GETResponse(r, ans) ==
    /\ pc[r] = "list"
    /\ calls' = [calls EXCEPT ![r] = Complete(r, ans)]
    /\ Respond(r, ListResponse(req[r].ragId, ans))
    /\ UNCHANGED <<LYZR_API_KEY, req, hookVars, dashboardVars>>

(***************************************************************************)
(* POST /api/rag                                                           *)
(***************************************************************************)
\* a value that has neither a type nor a parser property, and the text
\* string interpolation and FormData.append make of it
NoProperty == "undefined"

\* FILE_TYPE_CONFIG[mime] : the entry of the table or, for a key the table
\* inherits from Object.prototype, an object without type and parser
FileTypeConfig(mime) ==
    CASE mime = MIME_PDF -> [found |-> TRUE, type |-> "pdf", parser |-> "pypdf"]
      [] mime = MIME_DOCX -> [found |-> TRUE, type |-> "docx", parser |-> "docx2txt"]
      [] mime = MIME_TXT -> [found |-> TRUE, type |-> "txt", parser |-> "txt_parser"]
      [] mime = "constructor" ->
            [found |-> TRUE, type |-> NoProperty, parser |-> NoProperty]
      [] OTHER -> [found |-> FALSE, type |-> NoProperty, parser |-> NoProperty]

\* the chunk_size and chunk_overlap fields of the parse form
CHUNK_SIZE == 1000
CHUNK_OVERLAP == 100

\* mutant: every type gets the chunk fields
ChunkFieldsAlways(fileConfig) == <<CHUNK_SIZE, CHUNK_OVERLAP>>

ChunkFields(fileConfig) ==
    IF fileConfig.type = "pdf" THEN <<CHUNK_SIZE, CHUNK_OVERLAP>> ELSE <<>>

\* the fetch of the parse endpoint
ParseCall(fileConfig) ==
    Call("parse", fileConfig.type, fileConfig.parser, ChunkFields(fileConfig), <<>>)

\* JSON.stringify of a value read from JSON writes the same elements in the
\* same order
JSONStringify(items) == items

\* mutant: the train call carries the chunks without the first one
TrainCallTail(ragId, documents) ==
    Call("train", ragId, Absent, <<>>,
         IF documents.items = <<>> THEN <<>> ELSE Tail(documents.items))

\* the fetch of the train endpoint
TrainCall(ragId, documents) ==
    Call("train", ragId, Absent, <<>>, JSONStringify(documents.items))

\* the catch block of POST
PostCaught(message) ==
    DetailedError(<<"Failed to upload and train document">>, message, 500)

\* the chunks parse can return
Chunks == {"chunk1", "chunk2"}

\* the "documents" property of a parse result
ParsedDocuments ==
    {Undefined, JsNull, JsString(<<>>), JsString(<<"x">>), JsObject}
    \cup {JsArray(xs) : xs \in SeqsUpTo(Chunks, MaxDocs)}

\* the parse endpoint: an object with any "documents", null, no JSON
ParseAnswers ==
    {Threw} \cup FailedAnswers
    \cup {Answered(200, InvalidJson, Undefined), Answered(200, JsNull, Undefined)}
    \cup {Answered(200, JsObject, d) : d \in ParsedDocuments}

\* the train endpoint: its 2xx body is not read
TrainAnswers == {Threw} \cup FailedAnswers \cup {Answered(200, JsObject, Undefined)}

\* request.formData() of an upload: it raises on a body that is no form
Uploads ==
    {[readable |-> FALSE, file |-> NoFile, ragId |-> NoRagId]}
    \cup {[readable |-> TRUE, file |-> f, ragId |-> id] :
            f \in Files \cup {NoFile}, id \in RagIds}

\* mutant: an empty chunk list is refused, as DELETE refuses an empty list
ValidParseResultNonEmpty(documents) ==
    Truthy(documents) /\ IsArray(documents) /\ Len(documents.items) # 0

\* the parse result is accepted
ValidParseResult(documents) == Truthy(documents) /\ IsArray(documents)

\* POST up to its first fetch
POST(r, form) ==
    /\ pc[r] = "idle"
    /\ req' = [req EXCEPT ![r] =
                 [NoRequest EXCEPT !.method = "POST", !.ragId = form.ragId,
                                   !.file = form.file, !.readable = form.readable]]
    /\ IF ~KeyConfigured
       THEN Respond(r, ConfigError) /\ UNCHANGED calls
       ELSE IF ~form.readable
       THEN Respond(r, PostCaught(TypeErrorMessage)) /\ UNCHANGED calls
       ELSE IF form.file = NoFile
       THEN Respond(r, ErrorResponse(<<"file is required">>, 400)) /\ UNCHANGED calls
       ELSE IF RagIdMissing(form.ragId)
       THEN Respond(r, ErrorResponse(<<"ragId is required">>, 400)) /\ UNCHANGED calls
       ELSE IF ~FileTypeConfig(form.file.type).found
       THEN Respond(r, ErrorResponse(
                <<"Unsupported file type: ", form.file.type,
                  ". Only PDF, DOCX, and TXT files are supported.">>, 400))
            /\ UNCHANGED calls
       ELSE Fetch(r, ParseCall(FileTypeConfig(form.file.type)), "parse")
    /\ UNCHANGED <<LYZR_API_KEY, hookVars, dashboardVars>>

\* mutant: a failed parse is reported with the text of a failed train
ParseFailedAsTrain(ans) ==
    DetailedError(<<"Knowledge base training failed: ", StatusText(ans.status)>>,
                  ans.text, 500)

\* the response to a non-2xx answer of the parse call
ParseFailed(ans) ==
    DetailedError(<<"Document parsing failed: ", StatusText(ans.status)>>,
                  ans.text, 500)

\* mutant: a failed train is answered with the status of the remote
TrainFailedForwarded(ans) ==
    DetailedError(<<"Knowledge base training failed: ", StatusText(ans.status)>>,
                  ans.text, ans.status)

\* the response to a non-2xx answer of the train call
TrainFailed(ans) ==
    DetailedError(<<"Knowledge base training failed: ", StatusText(ans.status)>>,
                  ans.text, 500)

\* POST from the answer of the parse call to the train fetch
POSTParsed(r, ans) ==
    /\ pc[r] = "parse"
    /\ IF ans.kind = "throw"
       THEN /\ Respond(r, PostCaught(FetchFailed))
            /\ calls' = [calls EXCEPT ![r] = Complete(r, ans)]
       ELSE IF ~Ok(ans.status)
       THEN /\ Respond(r, IF ans.text = Unreadable THEN PostCaught(FetchFailed)
                          ELSE ParseFailed(ans))
            /\ calls' = [calls EXCEPT ![r] = Complete(r, ans)]
       ELSE IF ans.json = InvalidJson
       THEN /\ Respond(r, PostCaught(NotJson))
            /\ calls' = [calls EXCEPT ![r] = Complete(r, ans)]
       ELSE IF ans.json = JsNull
       THEN /\ Respond(r, PostCaught(TypeErrorMessage))
            /\ calls' = [calls EXCEPT ![r] = Complete(r, ans)]
       ELSE IF ~ValidParseResult(ans.documents)
       THEN /\ Respond(r, ErrorResponse(
                    <<"Invalid response format from document parsing">>, 500))
            /\ calls' = [calls EXCEPT ![r] = Complete(r, ans)]
       ELSE /\ calls' = [calls EXCEPT ![r] =
                           Append(Complete(r, ans), TrainCall(req[r].ragId, ans.documents))]
            /\ pc' = [pc EXCEPT ![r] = "train"]
            /\ UNCHANGED resp
    /\ UNCHANGED <<LYZR_API_KEY, req, hookVars, dashboardVars>>

\* the parse result POST holds while it trains
ParseResult(r) == calls[r][1].answer

\* mutant: the count is taken one short
DocumentCountShort(parseResult) ==
    IF Len(parseResult.documents.items) = 0 THEN 0
    ELSE Len(parseResult.documents.items) - 1

\* parseResult.documents.length
DocumentCount(parseResult) == Len(parseResult.documents.items)

\* the success response of POST
UploadResponse(file, ragId, parseResult) ==
    [NoResponse EXCEPT
        !.success = TRUE, !.status = 200,
        !.keys = {"success", "message", "fileName", "documentCount", "ragId",
                  "timestamp"}
                 \cup (IF FileTypeConfig(file.type).type = NoProperty THEN {}
                       ELSE {"fileType"}),
        !.message = "Document uploaded and trained successfully",
        !.fileName = file.name,
        !.fileType = IF FileTypeConfig(file.type).type = NoProperty THEN Absent
                     ELSE FileTypeConfig(file.type).type,
        !.documentCount = DocumentCount(parseResult),
        !.ragId = ragId, !.timestamp = Now]

\* POST from the answer of the train call on
POSTTrained(r, ans) ==
    /\ pc[r] = "train"
    /\ calls' = [calls EXCEPT ![r] = Complete(r, ans)]
    /\ Respond(r,
         IF ans.kind = "throw" THEN PostCaught(FetchFailed)
         ELSE IF ~Ok(ans.status)
         THEN IF ans.text = Unreadable THEN PostCaught(FetchFailed)
              ELSE TrainFailed(ans)
         ELSE UploadResponse(req[r].file, req[r].ragId, ParseResult(r)))
    /\ UNCHANGED <<LYZR_API_KEY, req, hookVars, dashboardVars>>

(***************************************************************************)
(* DELETE /api/rag                                                         *)
(***************************************************************************)
\* mutant: the prefix is prepended to every name
FormatDocumentAlways(doc) == STORAGE \o doc

\* a name with the storage/ prefix
FormatDocument(doc) == IF StartsWith(doc, STORAGE) THEN doc ELSE STORAGE \o doc

\* mutant: the names are sent in reverse order
FormattedDocumentsReversed(documents) ==
    [i \in 1..Len(documents) |-> FormatDocument(documents[Len(documents) + 1 - i])]

\* documents.map(...)
FormattedDocuments(documents) ==
    [i \in 1..Len(documents) |-> FormatDocument(documents[i])]

\* mutant: an empty documents list is accepted
ValidDocumentsOrEmpty(documents) == Truthy(documents) /\ IsArray(documents)

\* the documents list is accepted
ValidDocuments(documents) ==
    Truthy(documents) /\ IsArray(documents) /\ Len(documents.items) # 0

\* the fetch of the delete endpoint
DeleteCall(ragId, documents) ==
    Call("delete", ragId, Absent, <<>>, JSONStringify(FormattedDocuments(documents.items)))

\* mutant: the catch block drops the message of the exception
DeleteCaughtNoDetails(message) ==
    ErrorResponse(<<"Failed to delete documents">>, 500)

\* the catch block of DELETE
DeleteCaught(message) ==
    DetailedError(<<"Failed to delete documents">>, message, 500)

\* the "documents" property of a delete body
DeleteDocuments ==
    {Undefined, JsNull, JsString(<<"x">>), JsObject, JsArray(<<NotAString>>)}
    \cup {JsArray(xs) : xs \in SeqsUpTo(FileNames, MaxDocs)}

\* request.json() of a delete: it raises on a body that is not JSON, and
\* destructuring raises on the body null
Deletions ==
    {[readable |-> FALSE, ragId |-> NoRagId, documents |-> Undefined]}
    \cup {[readable |-> TRUE, ragId |-> id, documents |-> d] :
            id \in RagIds, d \in DeleteDocuments}

\* DELETE up to its fetch
DELETE(r, body) ==
    /\ pc[r] = "idle"
    /\ req' = [req EXCEPT ![r] =
                 [NoRequest EXCEPT !.method = "DELETE", !.ragId = body.ragId,
                                   !.documents = body.documents,
                                   !.readable = body.readable]]
    /\ IF ~KeyConfigured
       THEN Respond(r, ConfigError) /\ UNCHANGED calls
       ELSE IF ~body.readable
       THEN Respond(r, DeleteCaught(NotJson)) /\ UNCHANGED calls
       ELSE IF RagIdMissing(body.ragId)
       THEN Respond(r, ErrorResponse(<<"ragId is required">>, 400)) /\ UNCHANGED calls
       ELSE IF ~ValidDocuments(body.documents)
       THEN Respond(r, ErrorResponse(
                <<"documents array is required and must not be empty">>, 400))
            /\ UNCHANGED calls
       ELSE IF \E i \in 1..Len(body.documents.items) : ~IsString(body.documents.items[i])
       THEN Respond(r, DeleteCaught(TypeErrorMessage)) /\ UNCHANGED calls
       ELSE Fetch(r, DeleteCall(body.ragId, body.documents), "delete")
    /\ UNCHANGED <<LYZR_API_KEY, hookVars, dashboardVars>>

\* the success response of DELETE
DeleteResponse(ragId, documents) ==
    [NoResponse EXCEPT
        !.success = TRUE, !.status = 200,
        !.keys = {"success", "message", "deletedCount", "ragId", "timestamp"},
        !.message = "Documents deleted successfully",
        !.deletedCount = Len(documents.items),
        !.ragId = ragId, !.timestamp = Now]

\* DELETE from the answer of the delete call on
DELETEResponse(r, ans) ==
    /\ pc[r] = "delete"
    /\ calls' = [calls EXCEPT ![r] = Complete(r, ans)]
    /\ Respond(r,
         IF ans.kind = "throw" THEN DeleteCaught(FetchFailed)
         ELSE IF ~Ok(ans.status)
         THEN DetailedError(<<"Failed to delete documents: ", StatusText(ans.status)>>,
                            IF ans.text = Unreadable THEN "Unknown error" ELSE ans.text,
                            ans.status)
         ELSE DeleteResponse(req[r].ragId, req[r].documents))
    /\ UNCHANGED <<LYZR_API_KEY, req, hookVars, dashboardVars>>

\* the delete endpoint: its 2xx body is not read
DeleteAnswers == {Threw} \cup FailedAnswers \cup {Answered(200, JsObject, Undefined)}

\* the response of r has been sent; the slot takes the next request
Finish(r) ==
    /\ pc[r] = "done"
    /\ pc' = [pc EXCEPT ![r] = "idle"]
    /\ req' = [req EXCEPT ![r] = NoRequest]
    /\ calls' = [calls EXCEPT ![r] = <<>>]
    /\ resp' = [resp EXCEPT ![r] = NoResponse]
    /\ UNCHANGED <<LYZR_API_KEY, hookVars, dashboardVars>>

Next ==
    \E r \in Requests :
        \/ \E ragId \in RagIds : GET(r, ragId)
        \/ \E ans \in ListAnswers : GETResponse(r, ans)
        \/ \E form \in Uploads : POST(r, form)
        \/ \E ans \in ParseAnswers : POSTParsed(r, ans)
        \/ \E ans \in TrainAnswers : POSTTrained(r, ans)
        \/ \E body \in Deletions : DELETE(r, body)
        \/ \E ans \in DeleteAnswers : DELETEResponse(r, ans)
        \/ Finish(r)

Spec == Init /\ [][Next]_vars

(***************************************************************************)
(* Two requests handled at the same time: the steps of their handlers      *)
(* interleave at the awaits.  The inputs are the ones that tell the        *)
(* requests apart.                                                         *)
(***************************************************************************)
Slots == {"r1", "r2"}

ConcurrentListAnswers ==
    {Threw, Failed(404, "detail one"), Failed(500, "detail one")}
    \cup {Answered(200, JsArray(xs), Undefined) :
            xs \in SeqsUpTo({A_PDF, STORAGE \o A_PDF, STORAGE \o STORAGE \o A_PDF},
                            MaxDocs)}

ConcurrentDeletions ==
    {[readable |-> TRUE, ragId |-> "kb1", documents |-> JsArray(xs)] :
        xs \in SeqsUpTo({A_PDF, STORAGE \o A_PDF}, MaxDocs)}

InitConcurrent ==
    /\ LYZR_API_KEY \in ApiKeys
    /\ pc = [r \in Slots |-> "idle"]
    /\ req = [r \in Slots |-> NoRequest]
    /\ calls = [r \in Slots |-> <<>>]
    /\ resp = [r \in Slots |-> NoResponse]
    /\ HookInit
    /\ DashboardInit

NextConcurrent ==
    \E r \in Slots :
        \/ \E ragId \in {"", "kb1"} : GET(r, ragId)
        \/ \E ans \in ConcurrentListAnswers : GETResponse(r, ans)
        \/ POST(r, [readable |-> TRUE, ragId |-> "kb1",
                     file |-> [name |-> "upload", type |-> MIME_PDF]])
        \/ \E ans \in {Failed(500, "detail one"),
                        Answered(200, JsObject, JsArray(<<"chunk1">>))} :
              POSTParsed(r, ans)
        \/ \E ans \in {Failed(500, "detail one"), Answered(200, JsObject, Undefined)} :
              POSTTrained(r, ans)
        \/ \E body \in ConcurrentDeletions : DELETE(r, body)
        \/ \E ans \in {Failed(500, "detail one"), Answered(200, JsObject, Undefined)} :
              DELETEResponse(r, ans)
        \/ Finish(r)

SpecConcurrent == InitConcurrent /\ [][NextConcurrent]_vars

(***************************************************************************)
(* The wrappers getDocuments, uploadAndTrainDocument and deleteDocuments   *)
(***************************************************************************)
SUPPORTED_FILE_TYPES == {MIME_PDF, MIME_DOCX, MIME_TXT}

\* mutant: the type is looked up in a table object, as the route does
isFileTypeSupportedByLookup(fileType) == FileTypeConfig(fileType).found

\* SUPPORTED_FILE_TYPES.includes(fileType)
isFileTypeSupported(fileType) == fileType \in SUPPORTED_FILE_TYPES

validateFile(file) ==
    IF ~isFileTypeSupported(file.type)
    THEN [isValid |-> FALSE,
          error |-> <<"Unsupported file type: ", file.type,
                      ". Only PDF, DOCX, and TXT files are supported.">>]
    ELSE [isValid |-> TRUE, error |-> <<>>]

\* {success: false, error} returned before any fetch
RefusedLocally(error) ==
    [NoResult EXCEPT !.keys = {"success", "error"}, !.error = error]

\* {success: false, error, details} of the catch block of a wrapper
WrapperCaught(error) ==
    [NoResult EXCEPT !.keys = {"success", "error", "details"}, !.error = error]

\* what each wrapper returns before its fetch; NoResult when it goes on to
\* the fetch
GetDocumentsRefusal(ragId) ==
    IF RagIdMissing(ragId) THEN RefusedLocally(<<"ragId is required">>) ELSE NoResult

UploadRefusal(ragId, file) ==
    IF RagIdMissing(ragId) THEN RefusedLocally(<<"ragId is required">>)
    ELSE IF file = NoFile THEN WrapperCaught(<<"Failed to upload document">>)
    ELSE IF ~validateFile(file).isValid THEN RefusedLocally(validateFile(file).error)
    ELSE NoResult

DeleteRefusal(ragId, documents) ==
    IF RagIdMissing(ragId) THEN RefusedLocally(<<"ragId is required">>)
    ELSE IF ~ValidDocuments(documents)
    THEN RefusedLocally(<<"documents array is required and must not be empty">>)
    ELSE NoResult

\* the rest of a wrapper, from the outcome of its fetch on; failure is the
\* error text of its catch block
WrapperResult(http, failure) ==
    IF http.kind = "throw" THEN WrapperCaught(<<failure>>)
    ELSE IF Ok(http.body.status)
    THEN IF http.kind = "html" THEN WrapperCaught(<<failure>>)
         ELSE [NoResult EXCEPT !.success = http.body.success,
                               !.keys = http.body.keys \ {"status"},
                               !.error = http.body.error,
                               !.documents = http.body.documents]
    ELSE [NoResult EXCEPT
            !.keys = {"success", "error", "details"},
            !.error = IF http.kind = "html" THEN <<"Unknown error">>
                      ELSE IF http.body.error # <<>> THEN http.body.error
                      ELSE <<"API returned status ", ToString(http.body.status)>>]

(***************************************************************************)
(* How a request of a wrapper is served: the exchange names what happens   *)
(* on the way (the request does not arrive, a gateway answers, or the      *)
(* proxy takes it and, with a credential, calls the remote, which answers  *)
(* ans)                                                                    *)
(***************************************************************************)
ClientListings ==
    {<<STORAGE \o A_PDF>>, <<A_PDF, STORAGE \o STORAGE \o A_PDF>>,
     <<STORAGE \o A_PDF, STORAGE \o B_DOCX>>}

ClientListAnswers ==
    {Failed(404, "detail one"), Failed(500, "detail one")}
    \cup {Answered(200, JsArray(xs), Undefined) : xs \in ClientListings}

Exchanges(answers) ==
    {[kind |-> k, ans |-> NoAnswer] : k \in {"throw", "html"}}
    \cup {[kind |-> "proxy", ans |-> a] : a \in answers}

\* the proxy takes the request and calls the remote
Reached(x) == x.kind = "proxy" /\ KeyConfigured

\* what the fetch of a wrapper yields, given the response the proxy makes
\* of the answer of the remote: the fetch rejects, a gateway answers 502
\* with a body that is not JSON, or the proxy answers
Served(x, made) ==
    IF x.kind = "throw" THEN [kind |-> "throw", body |-> NoResponse]
    ELSE IF x.kind = "html"
    THEN [kind |-> "html", body |-> [NoResponse EXCEPT !.status = 502]]
    ELSE IF ~KeyConfigured THEN [kind |-> "http", body |-> ConfigError]
    ELSE [kind |-> "http", body |-> made]

\* the proxy's answer to an upload: a failed parse call, or both calls
\* succeeded
UploadHandled(ragId, file, ans) ==
    IF ~Ok(ans.status) THEN ParseFailed(ans) ELSE UploadResponse(file, ragId, ans)

\* the proxy's answer to a delete
DeleteHandled(ragId, documents, ans) ==
    IF ~Ok(ans.status)
    THEN DetailedError(<<"Failed to delete documents: ", StatusText(ans.status)>>,
                       ans.text, ans.status)
    ELSE DeleteResponse(ragId, documents)

\* mutant: the proxy sends the names as it got them
RemoteDeleteBodyAsGiven(ragId, documents) == documents.items

\* the names the delete call of the proxy carries to the remote
RemoteDeleteBody(ragId, documents) == DeleteCall(ragId, documents).body

\* the paths a listing answer holds
RemoteListing(x) ==
    IF Reached(x) /\ Ok(x.ans.status) /\ IsArray(x.ans.json)
    THEN x.ans.json.items ELSE <<>>

(***************************************************************************)
(* The hook useRAGKnowledgeBase                                            *)
(***************************************************************************)
\* result.error || text
ErrorOr(wrapped, text) == IF wrapped.error # <<>> THEN wrapped.error ELSE <<text>>

\* result.documents || []
DocumentsOrEmpty(wrapped) ==
    IF "documents" \in wrapped.keys THEN wrapped.documents ELSE <<>>

\* documentNames.includes(name)
Includes(documentNames, name) ==
    \E i \in 1..Len(documentNames) : documentNames[i] = name

RECURSIVE Filter(_, _)
\* prev.filter(doc => !documentNames.includes(doc.fileName))
Filter(prev, documentNames) ==
    IF prev = <<>> THEN <<>>
    ELSE IF Includes(documentNames, Head(prev).fileName)
    THEN Filter(Tail(prev), documentNames)
    ELSE <<Head(prev)>> \o Filter(Tail(prev), documentNames)

\* mutant: a list that is not known yet becomes the empty list
RemoveLocalOrEmpty(prev, documentNames) ==
    KnownDocuments(Filter(prev.items, documentNames))

\* prev ? prev.filter(...) : null
RemoveLocal(prev, documentNames) ==
    IF prev.known THEN KnownDocuments(Filter(prev.items, documentNames)) ELSE prev

\* an operation whose wrapper returns before any fetch: the statements
\* after the await run before any other handler, so loading and error take
\* their final values at once
Reject(o, op, refusal, text) ==
    /\ ops' = [ops EXCEPT ![o] = [op EXCEPT !.state = "done", !.result = refusal]]
    /\ kbLoading' = FALSE
    /\ kbError' = ErrorOr(refusal, text)
    /\ UNCHANGED kbDocuments

\* setLoading(true); setError(null); the wrapper sends its request
Await(o, op) ==
    /\ ops' = [ops EXCEPT ![o] = [op EXCEPT !.state = "inflight", !.sent = 1]]
    /\ kbLoading' = TRUE
    /\ kbError' = NoError
    /\ UNCHANGED kbDocuments

\* the statements after the await, but for setDocuments
Settle(o, x, wrapped, remote, text) ==
    /\ ops' = [ops EXCEPT ![o] = [@ EXCEPT !.state = "done", !.result = wrapped,
                                           !.reached = Reached(x),
                                           !.remote = remote]]
    /\ kbError' = IF wrapped.success THEN kbError ELSE ErrorOr(wrapped, text)
    /\ kbLoading' = FALSE

fetchDocuments(o, ragId) ==
    LET op == [NoOperation EXCEPT !.kind = "fetch", !.ragId = ragId]
    IN  /\ ops[o].state = "idle"
        /\ IF GetDocumentsRefusal(ragId) # NoResult
           THEN Reject(o, op, GetDocumentsRefusal(ragId), "Failed to fetch documents")
           ELSE Await(o, op)
        /\ UNCHANGED <<proxyVars, dashboardVars>>

fetchDocumentsSettled(o, x) ==
    LET wrapped == WrapperResult(Served(x, ListResponse(ops[o].ragId, x.ans)),
                                 "Failed to get documents")
    IN  /\ ops[o].state = "inflight"
        /\ ops[o].kind = "fetch"
        /\ Settle(o, x, wrapped, RemoteListing(x), "Failed to fetch documents")
        /\ kbDocuments' = IF wrapped.success
                          THEN KnownDocuments(DocumentsOrEmpty(wrapped))
                          ELSE kbDocuments
        /\ UNCHANGED <<proxyVars, dashboardVars>>

uploadDocument(o, ragId, file) ==
    LET op == [NoOperation EXCEPT !.kind = "upload", !.ragId = ragId, !.file = file]
    IN  /\ ops[o].state = "idle"
        /\ IF UploadRefusal(ragId, file) # NoResult
           THEN Reject(o, op, UploadRefusal(ragId, file), "Failed to upload document")
           ELSE Await(o, op)
        /\ UNCHANGED <<proxyVars, dashboardVars>>

uploadDocumentSettled(o, x) ==
    LET wrapped == WrapperResult(
                       Served(x, UploadHandled(ops[o].ragId, ops[o].file, x.ans)),
                       "Failed to upload document")
    IN  /\ ops[o].state = "inflight"
        /\ ops[o].kind = "upload"
        /\ Settle(o, x, wrapped, <<>>, "Failed to upload document")
        /\ UNCHANGED kbDocuments
        /\ UNCHANGED <<proxyVars, dashboardVars>>

removeDocuments(o, ragId, documentNames) ==
    LET op == [NoOperation EXCEPT !.kind = "remove", !.ragId = ragId,
                                  !.documentNames = documentNames]
    IN  /\ ops[o].state = "idle"
        /\ IF DeleteRefusal(ragId, documentNames) # NoResult
           THEN Reject(o, op, DeleteRefusal(ragId, documentNames),
                       "Failed to delete documents")
           ELSE Await(o, op)
        /\ UNCHANGED <<proxyVars, dashboardVars>>

removeDocumentsSettled(o, x) ==
    LET wrapped == WrapperResult(
                       Served(x, DeleteHandled(ops[o].ragId, ops[o].documentNames, x.ans)),
                       "Failed to delete documents")
    IN  /\ ops[o].state = "inflight"
        /\ ops[o].kind = "remove"
        /\ Settle(o, x, wrapped,
                  IF Reached(x)
                  THEN RemoteDeleteBody(ops[o].ragId, ops[o].documentNames)
                  ELSE <<>>,
                  "Failed to delete documents")
        /\ kbDocuments' = IF wrapped.success
                          THEN RemoveLocal(kbDocuments, ops[o].documentNames.items)
                          ELSE kbDocuments
        /\ UNCHANGED <<proxyVars, dashboardVars>>

\* the caller has the result of the operation
Return(o) ==
    /\ ops[o].state = "done"
    /\ ops' = [ops EXCEPT ![o] = NoOperation]
    /\ UNCHANGED <<kbDocuments, kbLoading, kbError, proxyVars, dashboardVars>>

\* the documentNames the callers pass
ClientNames ==
    {Undefined, JsString(<<"x">>), JsArray(<<>>), JsArray(<<A_PDF>>),
     JsArray(<<A_PDF, STORAGE \o A_PDF>>), JsArray(<<A_PDF, B_DOCX>>)}

NextClient ==
    \E o \in Operations :
        \/ \E ragId \in {"", "kb1"} : fetchDocuments(o, ragId)
        \/ \E x \in Exchanges(ClientListAnswers) : fetchDocumentsSettled(o, x)
        \/ \E ragId \in {"", "kb1"}, m \in {MIME_PDF, "image/png", "constructor"} :
              uploadDocument(o, ragId, [name |-> "upload", type |-> m])
        \/ \E x \in Exchanges({Failed(500, "detail one"),
                                Answered(200, JsObject, JsArray(<<"chunk1">>))}) :
              uploadDocumentSettled(o, x)
        \/ \E ragId \in {"", "kb1"}, documentNames \in ClientNames :
              removeDocuments(o, ragId, documentNames)
        \/ \E x \in Exchanges({Failed(500, "detail one"),
                                Answered(200, JsObject, Undefined)}) :
              removeDocumentsSettled(o, x)
        \/ Return(o)

InitClient ==
    /\ LYZR_API_KEY \in {"", "key"}
    /\ pc = [r \in Requests |-> "idle"]
    /\ req = [r \in Requests |-> NoRequest]
    /\ calls = [r \in Requests |-> <<>>]
    /\ resp = [r \in Requests |-> NoResponse]
    /\ HookInit
    /\ DashboardInit

SpecClient == InitClient /\ [][NextClient]_vars

(***************************************************************************)
(* The cost calculator dashboard                                           *)
(***************************************************************************)
RECURSIVE TrimStart(_)
TrimStart(s) ==
    IF s # <<>> /\ Head(s) = " " THEN TrimStart(Tail(s)) ELSE s

RECURSIVE TrimEnd(_)
TrimEnd(s) ==
    IF s # <<>> /\ s[Len(s)] = " " THEN TrimEnd(SubSeq(s, 1, Len(s) - 1)) ELSE s

\* String.prototype.trim
Trim(s) == TrimEnd(TrimStart(s))

\* the estimates /api/agent can answer with
Estimates == {"estimate1", "estimate2"}

ObjectPayload(e) == [NoPayload EXCEPT !.t = "object", !.value = e]

\* a string payload: the JSON text of an estimate, a text that is no JSON,
\* or the empty string
StringPayload(text, e) == [t |-> "string", text |-> text, value |-> e]

Payloads ==
    {NoPayload, StringPayload("", "none"), StringPayload("not json", "none")}
    \cup {ObjectPayload(e) : e \in Estimates}
    \cup {StringPayload("json", e) : e \in Estimates}

\* the truthiness of data.response
PayloadTruthy(payload) ==
    payload.t = "object" \/ (payload.t = "string" /\ payload.text # "")

\* mutant: a text that is no JSON parses to the sample estimate
JSONParseLenient(payload) ==
    IF payload.value = "none" THEN [threw |-> FALSE, value |-> "estimate1"]
    ELSE [threw |-> FALSE, value |-> payload.value]

\* JSON.parse of a string payload: it raises on a text that is no JSON
JSONParse(payload) ==
    IF payload.value = "none" THEN [threw |-> TRUE, value |-> "none"]
    ELSE [threw |-> FALSE, value |-> payload.value]

\* what the fetch of /api/agent and response.json() yield: the fetch
\* rejects, the body is no JSON, the body is null, or the body is an object
\* with success and response
AgentOutcomes ==
    {[NoOutcome EXCEPT !.kind = k] : k \in {"throw", "notjson", "null"}}
    \cup {[kind |-> "json", success |-> b, response |-> payload] :
            b \in BOOLEAN, payload \in Payloads}

\* the statements the user can type
Statements == {<<>>, <<" ", " ">>, <<" ", "a", " ">>, SAMPLE_PROBLEM}

\* mutant: the Calculate button is never disabled
CalculateNeverDisabled == FALSE

\* disabled={loading} of the Calculate button
CalculateDisabled == loading

\* disabled={loading} of the Reset button
ResetDisabled == loading

setProblemStatement(text) ==
    /\ problemStatement' = text
    /\ handled' = Handled("onChange", "")
    /\ UNCHANGED <<monthlyQueries, conversationTurns, modelPreference, loading,
                   result, showDetails, expandedSection, agent>>
    /\ UNCHANGED <<proxyVars, hookVars>>

setMonthlyQueries(n) ==
    /\ monthlyQueries' = n
    /\ handled' = Handled("onChange", "")
    /\ UNCHANGED <<problemStatement, conversationTurns, modelPreference, loading,
                   result, showDetails, expandedSection, agent>>
    /\ UNCHANGED <<proxyVars, hookVars>>

setConversationTurns(n) ==
    /\ conversationTurns' = n
    /\ handled' = Handled("onChange", "")
    /\ UNCHANGED <<problemStatement, monthlyQueries, modelPreference, loading,
                   result, showDetails, expandedSection, agent>>
    /\ UNCHANGED <<proxyVars, hookVars>>

setModelPreference(model) ==
    /\ modelPreference' = model
    /\ handled' = Handled("onChange", "")
    /\ UNCHANGED <<problemStatement, monthlyQueries, conversationTurns, loading,
                   result, showDetails, expandedSection, agent>>
    /\ UNCHANGED <<proxyVars, hookVars>>

\* handleCalculate up to its fetch
handleCalculate ==
    /\ ~CalculateDisabled
    /\ IF Trim(problemStatement) = <<>>
       THEN /\ handled' = Handled("handleCalculate", "Please enter a problem statement")
            /\ UNCHANGED <<loading, showDetails, agent>>
       ELSE /\ handled' = Handled("handleCalculate", "")
            /\ loading' = TRUE
            /\ showDetails' = FALSE
            /\ agent' = [agent EXCEPT !.inflight = @ + 1]
    /\ UNCHANGED <<problemStatement, monthlyQueries, conversationTurns,
                   modelPreference, result, expandedSection>>
    /\ UNCHANGED <<proxyVars, hookVars>>

\* handleCalculate from the outcome of its fetch on
handleCalculateSettled(outcome) ==
    /\ agent.inflight > 0
    /\ agent' = [inflight |-> agent.inflight - 1, outcome |-> outcome]
    /\ IF outcome.kind # "json"
       THEN /\ handled' = Handled("handleCalculateSettled",
                                  "An error occurred. Please try again.")
            /\ UNCHANGED <<result, showDetails, expandedSection>>
       ELSE IF ~(outcome.success /\ PayloadTruthy(outcome.response))
       THEN /\ handled' = Handled("handleCalculateSettled",
                                  "Failed to calculate costs. Please try again.")
            /\ UNCHANGED <<result, showDetails, expandedSection>>
       ELSE IF outcome.response.t = "string" /\ JSONParse(outcome.response).threw
       THEN /\ handled' = Handled("handleCalculateSettled",
                                  "An error occurred. Please try again.")
            /\ UNCHANGED <<result, showDetails, expandedSection>>
       ELSE /\ handled' = Handled("handleCalculateSettled", "")
            /\ result' = IF outcome.response.t = "string"
                         THEN JSONParse(outcome.response).value
                         ELSE outcome.response.value
            /\ showDetails' = TRUE
            /\ expandedSection' = "setup"
    /\ loading' = FALSE
    /\ UNCHANGED <<problemStatement, monthlyQueries, conversationTurns, modelPreference>>
    /\ UNCHANGED <<proxyVars, hookVars>>

handleReset ==
    /\ ~ResetDisabled
    /\ problemStatement' = SAMPLE_PROBLEM
    /\ monthlyQueries' = MonthlyQueriesDefault
    /\ conversationTurns' = ConversationTurnsDefault
    /\ modelPreference' = ModelPreferenceDefault
    /\ showDetails' = FALSE
    /\ result' = SAMPLE_RESULT
    /\ handled' = Handled("handleReset", "")
    /\ UNCHANGED <<loading, expandedSection, agent>>
    /\ UNCHANGED <<proxyVars, hookVars>>

NextDashboard ==
    \/ \E text \in Statements : setProblemStatement(text)
    \/ \E n \in {1, MonthlyQueriesDefault} : setMonthlyQueries(n)
    \/ \E n \in {1, ConversationTurnsDefault} : setConversationTurns(n)
    \/ \E model \in {ModelPreferenceDefault, "gpt-4o"} : setModelPreference(model)
    \/ handleCalculate
    \/ \E outcome \in AgentOutcomes : handleCalculateSettled(outcome)
    \/ handleReset

InitDashboard ==
    /\ LYZR_API_KEY = "key"
    /\ pc = [r \in Requests |-> "idle"]
    /\ req = [r \in Requests |-> NoRequest]
    /\ calls = [r \in Requests |-> <<>>]
    /\ resp = [r \in Requests |-> NoResponse]
    /\ HookInit
    /\ DashboardInit

SpecDashboard == InitDashboard /\ [][NextDashboard]_vars

(***************************************************************************)
(* Properties                                                              *)
(***************************************************************************)
\* the handler of r has started
Started(r) == pc[r] # "idle"

\* the handler of r has returned its response
Done(r) == pc[r] = "done"

\* call c has completed with a 2xx answer / has failed (a non-2xx answer or
\* a rejected fetch)
Succeeded(c) == c.answer.kind = "http" /\ Ok(c.answer.status)
CallFailed(c) ==
    c.answer.kind = "throw" \/ (c.answer.kind = "http" /\ ~Ok(c.answer.status))

\* C1: without the credential every operation answers the same
\* configuration error (success=false, 500, same text) and makes no remote
\* call, whatever the request holds.
C1_NoCredentialConfigError ==
    \A r \in Requests :
        (LYZR_API_KEY \in {"<undefined>", ""} /\ Started(r)) =>
            /\ Done(r)
            /\ calls[r] = <<>>
            /\ resp[r].success = FALSE
            /\ resp[r].status = 500
            /\ resp[r].keys = {"success", "error"}
            /\ resp[r].error = <<"LYZR_API_KEY not configured in .env.local">>

\* C1 witness: a DELETE without ragId and documents, which validation would
\* refuse with 400, answered with the configuration error
C1_Witness ==
    \E r \in Requests :
        /\ LYZR_API_KEY = ""
        /\ Done(r)
        /\ req[r].method = "DELETE"
        /\ req[r].readable
        /\ req[r].ragId = NoRagId
        /\ req[r].documents = Undefined
        /\ resp[r].status = 500

\* C2: a train call is the second call of its request, issued after a parse
\* call that completed with 2xx and a list-valued "documents"; its body is
\* that list, element by element, and its endpoint is the request's ragId.
C2_TrainAfterParse ==
    \A r \in Requests :
        \A i \in 1..Len(calls[r]) :
            calls[r][i].op = "train" =>
                /\ i = 2
                /\ req[r].method = "POST"
                /\ calls[r][1].op = "parse"
                /\ Succeeded(calls[r][1])
                /\ calls[r][1].answer.json.t = "object"
                /\ calls[r][1].answer.documents.t = "array"
                /\ calls[r][i].body = calls[r][1].answer.documents.items
                /\ calls[r][i].target = req[r].ragId

\* C2 witness: the train call of kb1 carries <<chunk1, chunk2>>
C2_Witness ==
    \E r \in Requests :
        /\ Len(calls[r]) = 2
        /\ calls[r][2].op = "train"
        /\ calls[r][2].target = "kb1"
        /\ calls[r][2].body = <<"chunk1", "chunk2">>

\* the step a failed call of UploadAndTrain belongs to, as the error names it
StepError(c) ==
    IF c.op = "parse" THEN "Document parsing failed: "
    ELSE "Knowledge base training failed: "

\* a failed call ends its request: it is the last call, and the response is
\* an error
StopsAt(r, i) ==
    /\ i = Len(calls[r])
    /\ Done(r)
    /\ resp[r].success = FALSE
    /\ resp[r].status = 500

\* C3 as stated: a failed parse or train call ends the request with an error
\* naming that step, and no call follows it.
C3_FailedStepNamed ==
    \A r \in Requests :
        \A i \in 1..Len(calls[r]) :
            (calls[r][i].op \in {"parse", "train"} /\ CallFailed(calls[r][i])) =>
                /\ StopsAt(r, i)
                /\ resp[r].error[1] = StepError(calls[r][i])

\* C3 amended: a failed parse or train call ends the request with an error
\* (500) and no call follows it; the error names the step when the call
\* answered non-2xx with a readable body, and is the general upload error
\* when the fetch was rejected or the error body could not be read.
C3_FailedStepStops ==
    \A r \in Requests :
        \A i \in 1..Len(calls[r]) :
            (calls[r][i].op \in {"parse", "train"} /\ CallFailed(calls[r][i])) =>
                /\ StopsAt(r, i)
                /\ IF calls[r][i].answer.kind = "http"
                      /\ calls[r][i].answer.text # Unreadable
                   THEN /\ resp[r].error[1] = StepError(calls[r][i])
                        /\ resp[r].details = calls[r][i].answer.text
                   ELSE resp[r].error = <<"Failed to upload and train document">>

\* C3 witness: the train call failed after a successful parse, and the
\* request ended with the two calls
C3_Witness ==
    \E r \in Requests :
        /\ Done(r)
        /\ Len(calls[r]) = 2
        /\ Succeeded(calls[r][1])
        /\ calls[r][2].op = "train"
        /\ calls[r][2].answer.kind = "http"
        /\ calls[r][2].answer.status = 500
        /\ resp[r].error[1] = "Knowledge base training failed: "

\* C4: a List whose listing call answers 404 returns success with HTTP 200
\* and an empty documents list.
C4_NotFoundIsEmpty ==
    \A r \in Requests :
        (/\ Done(r)
         /\ Len(calls[r]) = 1
         /\ calls[r][1].op = "list"
         /\ calls[r][1].answer.kind = "http"
         /\ calls[r][1].answer.status = 404) =>
            /\ resp[r].success = TRUE
            /\ resp[r].status = 200
            /\ "documents" \in resp[r].keys
            /\ "error" \notin resp[r].keys
            /\ resp[r].documents = <<>>

\* C4 witness: a List answered 404 by the remote
C4_Witness ==
    \E r \in Requests :
        /\ Done(r)
        /\ req[r].method = "GET"
        /\ Len(calls[r]) = 1
        /\ calls[r][1].answer.status = 404
        /\ resp[r].success = TRUE

\* the extension of a file name: the text after its last '.', none when the
\* name holds no '.'
HasExtension(fileName) == DotPositions(fileName) # {}
Extension(fileName) == ToLowerCase(Slice(fileName, Max(DotPositions(fileName))))

\* the type C5 gives a file name
TypeByExtension(fileName) ==
    IF ~HasExtension(fileName) THEN "txt"
    ELSE IF Extension(fileName) = <<"p", "d", "f">> THEN "pdf"
    ELSE IF Extension(fileName) = <<"d", "o", "c", "x">> THEN "docx"
    ELSE "txt"

\* the name C5 gives a path
WithoutStorage(path) ==
    IF Len(path) >= 8 /\ SubSeq(path, 1, 8) = STORAGE
    THEN SubSeq(path, 9, Len(path)) ELSE path

\* r is a List answered 2xx with a list of paths
ListedPaths(r) ==
    /\ Done(r)
    /\ Len(calls[r]) = 1
    /\ calls[r][1].op = "list"
    /\ Succeeded(calls[r][1])
    /\ calls[r][1].answer.json.t = "array"
    /\ \A i \in 1..Len(calls[r][1].answer.json.items) :
           IsString(calls[r][1].answer.json.items[i])

\* C5: List returns one document per path, in order, named by the path
\* without a leading storage/, typed pdf or docx by that extension and txt
\* otherwise (names without extension included), with status active.
C5_ListTransform ==
    \A r \in Requests :
        ListedPaths(r) =>
            LET paths == calls[r][1].answer.json.items
            IN  /\ resp[r].success = TRUE
                /\ Len(resp[r].documents) = Len(paths)
                /\ \A i \in 1..Len(paths) :
                       /\ resp[r].documents[i].fileName = WithoutStorage(paths[i])
                       /\ resp[r].documents[i].fileType =
                              TypeByExtension(WithoutStorage(paths[i]))
                       /\ resp[r].documents[i].status = "active"

\* the parser, endpoint and chunk fields C6 gives the supported types
SupportedMimeTypes == {MIME_PDF, MIME_DOCX, MIME_TXT}

ExpectedParser(mime) ==
    CASE mime = MIME_PDF -> "pypdf"
      [] mime = MIME_DOCX -> "docx2txt"
      [] mime = MIME_TXT -> "txt_parser"
      [] OTHER -> Absent

ExpectedType(mime) ==
    CASE mime = MIME_PDF -> "pdf"
      [] mime = MIME_DOCX -> "docx"
      [] mime = MIME_TXT -> "txt"
      [] OTHER -> Absent

\* C6: for a file of a supported type the parse call carries the parser of
\* that type, goes to the parse endpoint of that type, and carries the chunk
\* fields 1000 and 100 exactly when the type is PDF.
C6_ParserPerType ==
    \A r \in Requests :
        (/\ req[r].method = "POST"
         /\ req[r].file.type \in SupportedMimeTypes
         /\ Len(calls[r]) >= 1) =>
            /\ calls[r][1].op = "parse"
            /\ calls[r][1].parser = ExpectedParser(req[r].file.type)
            /\ calls[r][1].target = ExpectedType(req[r].file.type)
            /\ (req[r].file.type = MIME_PDF => calls[r][1].chunk = <<1000, 100>>)
            /\ (req[r].file.type # MIME_PDF => calls[r][1].chunk = <<>>)

\* C6 witness: the parse call of a DOCX file, sent without chunk fields
C6_Witness ==
    \E r \in Requests :
        /\ req[r].file.type = MIME_DOCX
        /\ Len(calls[r]) >= 1
        /\ calls[r][1].parser = "docx2txt"
        /\ calls[r][1].chunk = <<>>

\* the number of storage/ prefixes a name starts with
RECURSIVE PrefixCount(_)
PrefixCount(name) ==
    IF Len(name) >= 8 /\ SubSeq(name, 1, 8) = STORAGE
    THEN 1 + PrefixCount(SubSeq(name, 9, Len(name)))
    ELSE 0

\* r is a Delete that passed validation with a list of names
ValidDelete(r) ==
    /\ Started(r)
    /\ req[r].method = "DELETE"
    /\ LYZR_API_KEY = "key"
    /\ req[r].readable
    /\ req[r].ragId \in {"kb1", "kb2"}
    /\ req[r].documents.t = "array"
    /\ Len(req[r].documents.items) > 0
    /\ \A i \in 1..Len(req[r].documents.items) : IsString(req[r].documents.items[i])

\* C7 as stated: every name of the remote delete call starts with exactly
\* one storage/ prefix.
C7_ExactlyOnePrefix ==
    \A r \in Requests :
        \A i \in 1..Len(calls[r]) :
            calls[r][i].op = "delete" =>
                \A k \in 1..Len(calls[r][i].body) :
                    PrefixCount(calls[r][i].body[k]) = 1

\* C7 amended: every name of the remote delete call starts with storage/;
\* a name that came without the prefix got one, a name that came with it is
\* sent as it came (never with a prefix added), so the sent name has exactly
\* one prefix unless the name came with more than one.
C7_PrefixNormalised ==
    \A r \in Requests :
        \A i \in 1..Len(calls[r]) :
            calls[r][i].op = "delete" =>
                /\ Len(calls[r][i].body) = Len(req[r].documents.items)
                /\ \A k \in 1..Len(calls[r][i].body) :
                       LET name == req[r].documents.items[k]
                           sent == calls[r][i].body[k]
                       IN  /\ PrefixCount(sent) >= 1
                           /\ PrefixCount(name) = 0 => sent = STORAGE \o name
                           /\ PrefixCount(name) >= 1 => sent = name
                           /\ PrefixCount(name) <= 1 => PrefixCount(sent) = 1

\* C7 witness: a delete call for a name without and a name with the prefix
C7_Witness ==
    \E r \in Requests :
        /\ req[r].documents = JsArray(<<A_PDF, STORAGE \o A_PDF>>)
        /\ Len(calls[r]) = 1
        /\ calls[r][1].body = <<STORAGE \o A_PDF, STORAGE \o A_PDF>>

\* C8: a valid Delete makes one remote call, a delete whose body holds the
\* input names in the input order (each with its prefix), and after a 2xx
\* answer reports deletedCount = the length of the input list.
C8_DeleteOneCall ==
    \A r \in Requests :
        ValidDelete(r) =>
            LET names == req[r].documents.items
            IN  /\ Len(calls[r]) = 1
                /\ calls[r][1].op = "delete"
                /\ calls[r][1].target = req[r].ragId
                /\ Len(calls[r][1].body) = Len(names)
                /\ \A k \in 1..Len(names) :
                       calls[r][1].body[k] \in {names[k], STORAGE \o names[k]}
                /\ (Done(r) /\ Succeeded(calls[r][1])) =>
                       /\ resp[r].success = TRUE
                       /\ resp[r].deletedCount = Len(names)

\* C8 witness: a Delete of two different names answered 2xx
C8_Witness ==
    \E r \in Requests :
        /\ Done(r)
        /\ req[r].documents = JsArray(<<NOTES, B_DOCX>>)
        /\ Len(calls[r]) = 1
        /\ Succeeded(calls[r][1])
        /\ resp[r].deletedCount = 2

\* C9: a successful UploadAndTrain response reports documentCount = the
\* length of the chunk list parse returned, the fileType configured for the
\* MIME type of the file (none where none is configured), and the ragId of
\* the request.
C9_UploadResponse ==
    \A r \in Requests :
        (Done(r) /\ req[r].method = "POST" /\ resp[r].success = TRUE) =>
            /\ Len(calls[r]) = 2
            /\ calls[r][1].answer.documents.t = "array"
            /\ resp[r].documentCount = Len(calls[r][1].answer.documents.items)
            /\ resp[r].fileType = ExpectedType(req[r].file.type)
            /\ resp[r].ragId = req[r].ragId
            /\ resp[r].status = 200

\* C9 witness: a plain-text upload to kb1 parsed into two chunks
C9_Witness ==
    \E r \in Requests :
        /\ Done(r)
        /\ resp[r].success = TRUE
        /\ req[r].file.type = MIME_TXT
        /\ req[r].ragId = "kb1"
        /\ resp[r].documentCount = 2
        /\ resp[r].fileType = "txt"

\* r is an UploadAndTrain whose parse call was answered 2xx with a JSON
\* object
ParsedObject(r) ==
    /\ req[r].method = "POST"
    /\ Len(calls[r]) >= 1
    /\ calls[r][1].op = "parse"
    /\ Succeeded(calls[r][1])
    /\ calls[r][1].answer.json.t = "object"

\* r ended with the processing error, with no train call
ProcessingError(r) ==
    /\ Done(r)
    /\ Len(calls[r]) = 1
    /\ resp[r].success = FALSE
    /\ resp[r].status = 500
    /\ resp[r].error = <<"Invalid response format from document parsing">>

\* C10: after a 2xx parse answer the request ends with the processing error
\* (500, no train call) exactly when "documents" is absent or no list; a
\* list, also an empty one, is sent on in a train call, and an empty list
\* gives documentCount 0.
C10_ProcessingErrorIffNoList ==
    \A r \in Requests :
        ParsedObject(r) =>
            LET documents == calls[r][1].answer.documents
            IN  /\ ProcessingError(r) <=> documents.t # "array"
                /\ documents.t = "array" =>
                       /\ Len(calls[r]) = 2
                       /\ calls[r][2].op = "train"
                       /\ calls[r][2].body = documents.items
                /\ (documents = JsArray(<<>>) /\ Done(r) /\ resp[r].success = TRUE) =>
                       resp[r].documentCount = 0

\* C10 witness: an upload whose parse returned an empty list, trained and
\* answered with documentCount 0
C10_Witness ==
    \E r \in Requests :
        /\ Done(r)
        /\ ParsedObject(r)
        /\ calls[r][1].answer.documents = JsArray(<<>>)
        /\ Len(calls[r]) = 2
        /\ calls[r][2].body = <<>>
        /\ resp[r].success = TRUE
        /\ resp[r].documentCount = 0

\* C11 as stated: the List transform is idempotent: applied to the fileName
\* it produced, it gives the same fileName and fileType again.
C11_TransformIdempotent ==
    \A r \in Requests :
        ListedPaths(r) =>
            \A i \in 1..Len(resp[r].documents) :
                /\ ToDocument(resp[r].documents[i].fileName).fileName =
                       resp[r].documents[i].fileName
                /\ ToDocument(resp[r].documents[i].fileName).fileType =
                       resp[r].documents[i].fileType

\* C11 amended: the List transform is idempotent on every path that starts
\* with at most one storage/ prefix; on a path that starts with more, the
\* second application removes one more prefix from the fileName.
C11_IdempotentUpToOnePrefix ==
    \A r \in Requests :
        ListedPaths(r) =>
            \A i \in 1..Len(resp[r].documents) :
                LET path == calls[r][1].answer.json.items[i]
                    once == resp[r].documents[i]
                    twice == ToDocument(once.fileName)
                IN  /\ PrefixCount(path) <= 1 =>
                           /\ twice.fileName = once.fileName
                           /\ twice.fileType = once.fileType
                    /\ PrefixCount(path) >= 2 =>
                           /\ twice.fileName # once.fileName
                           /\ STORAGE \o twice.fileName = once.fileName

\* C11 witness: a listing with a prefixed path, whose fileName lost the
\* prefix, and an unprefixed one
C11_Witness ==
    \E r \in Requests :
        /\ ListedPaths(r)
        /\ calls[r][1].answer.json.items = <<STORAGE \o A_PDF, B_DOCX>>
        /\ resp[r].documents[1].fileName = A_PDF
        /\ resp[r].documents[2].fileType = "docx"

\* call c was answered non-2xx by the remote, and the handler treats it as
\* a failure (the 404 of the listing is not one)
RemoteFailure(c) ==
    /\ c.answer.kind = "http"
    /\ ~Ok(c.answer.status)
    /\ ~(c.op = "list" /\ c.answer.status = 404)

\* C12 as stated: a non-2xx answer of any downstream call (the 404 of the
\* listing apart) gives an error response with the status of the remote and
\* the error text of the remote.
C12_RemoteStatusForwarded ==
    \A r \in Requests :
        \A i \in 1..Len(calls[r]) :
            RemoteFailure(calls[r][i]) =>
                /\ Done(r)
                /\ resp[r].success = FALSE
                /\ resp[r].status = calls[r][i].answer.status
                /\ resp[r].details = calls[r][i].answer.text

\* C12 amended: a non-2xx answer of a downstream call (the 404 of the
\* listing apart) gives an error response; with a readable remote body it
\* carries the remote text in details and has the status of the remote for
\* List and Delete, and status 500 for the parse and train steps; with an
\* unreadable body List, parse and train answer the general 500 error of the
\* catch block and Delete answers the status of the remote with details
\* "Unknown error".
C12_RemoteFailureReported ==
    \A r \in Requests :
        \A i \in 1..Len(calls[r]) :
            RemoteFailure(calls[r][i]) =>
                LET c == calls[r][i]
                IN  /\ Done(r)
                    /\ i = Len(calls[r])
                    /\ resp[r].success = FALSE
                    /\ "details" \in resp[r].keys
                    /\ resp[r].status =
                           IF c.op \in {"parse", "train"} THEN 500
                           ELSE IF c.op = "list" /\ c.answer.text = Unreadable THEN 500
                           ELSE c.answer.status
                    /\ resp[r].details =
                           IF c.answer.text # Unreadable THEN c.answer.text
                           ELSE IF c.op = "delete" THEN "Unknown error"
                           ELSE FetchFailed

\* C12 witness: a train call answered 403 with a readable body, reported
\* with status 500 and the remote text
C12_Witness ==
    \E r \in Requests :
        /\ Done(r)
        /\ Len(calls[r]) = 2
        /\ calls[r][2].op = "train"
        /\ calls[r][2].answer = Failed(403, "detail two")
        /\ resp[r].status = 500
        /\ resp[r].details = "detail two"

\* r is a List or a Delete whose remote call was answered non-2xx (the 404
\* of the listing apart)
ListOrDeleteFailure(r) ==
    /\ Len(calls[r]) = 1
    /\ calls[r][1].op \in {"list", "delete"}
    /\ RemoteFailure(calls[r][1])

\* C13 as stated: List and Delete answer a non-2xx status s of the remote
\* (s # 404 for List) with success=false, status s and the remote body text
\* in details.
C13_ListDeleteForward ==
    \A r \in Requests :
        ListOrDeleteFailure(r) =>
            /\ Done(r)
            /\ resp[r].success = FALSE
            /\ resp[r].status = calls[r][1].answer.status
            /\ resp[r].details = calls[r][1].answer.text

\* C13 amended: List and Delete answer a non-2xx status s of the remote
\* (s # 404 for List) with success=false, never with a success; when the
\* remote body can be read the status is s and details is the body text;
\* when it cannot, List answers 500 with the message of the read failure and
\* Delete answers s with details "Unknown error".
C13_ListDeleteFailure ==
    \A r \in Requests :
        ListOrDeleteFailure(r) =>
            LET c == calls[r][1]
            IN  /\ Done(r)
                /\ resp[r].success = FALSE
                /\ "documents" \notin resp[r].keys
                /\ c.answer.text # Unreadable =>
                       /\ resp[r].status = c.answer.status
                       /\ resp[r].details = c.answer.text
                /\ (c.answer.text = Unreadable /\ c.op = "list") =>
                       /\ resp[r].status = 500
                       /\ resp[r].error = <<"Failed to fetch documents">>
                /\ (c.answer.text = Unreadable /\ c.op = "delete") =>
                       /\ resp[r].status = c.answer.status
                       /\ resp[r].details = "Unknown error"

\* C13 witness: a List answered 403 by the remote, forwarded as 403
C13_Witness ==
    \E r \in Requests :
        /\ Done(r)
        /\ req[r].method = "GET"
        /\ Len(calls[r]) = 1
        /\ calls[r][1].answer = Failed(403, "detail one")
        /\ resp[r].status = 403
        /\ resp[r].details = "detail one"

\* r is a request the handler could read (a query string, a multipart form,
\* a JSON object) while the credential is configured
Readable(r) ==
    /\ Started(r)
    /\ LYZR_API_KEY = "key"
    /\ req[r].readable

\* r ended with a validation error and made no remote call
Refused(r) ==
    /\ Done(r)
    /\ calls[r] = <<>>
    /\ resp[r].success = FALSE
    /\ resp[r].status = 400
    /\ resp[r].keys = {"success", "error"}

\* C14: with the credential, a List, UploadAndTrain or Delete whose ragId
\* is missing or empty ends with a validation error (400) and makes no
\* remote call.
C14_MissingRagIdRefused ==
    \A r \in Requests :
        (Readable(r) /\ req[r].ragId \in {NoRagId, ""}) => Refused(r)

\* C14 witness: an upload of a PDF file with an empty ragId, refused
C14_Witness ==
    \E r \in Requests :
        /\ Readable(r)
        /\ req[r].method = "POST"
        /\ req[r].file.type = MIME_PDF
        /\ req[r].ragId = ""
        /\ Refused(r)
        /\ resp[r].error = <<"ragId is required">>

\* C15: with the credential, an UploadAndTrain without file, or with a file
\* whose declared type is none of the three supported ones, ends with 400
\* and no parse or train call; the missing file is reported before the
\* missing ragId, and both before the unsupported type.
C15_UnsupportedUploadRefused ==
    \A r \in Requests :
        (Readable(r) /\ req[r].method = "POST") =>
            /\ (req[r].file = NoFile \/ req[r].file.type \notin SupportedMimeTypes) =>
                   Refused(r)
            /\ req[r].file = NoFile => resp[r].error = <<"file is required">>
            /\ (req[r].file # NoFile /\ req[r].ragId \in {NoRagId, ""}) =>
                   resp[r].error = <<"ragId is required">>

\* C16: with credential and ragId, a Delete whose documents is missing, no
\* list or an empty list ends with 400 and no remote delete call.
C16_NoDocumentsRefused ==
    \A r \in Requests :
        (/\ Readable(r)
         /\ req[r].method = "DELETE"
         /\ req[r].ragId \in {"kb1", "kb2"}
         /\ (req[r].documents.t # "array" \/ req[r].documents.items = <<>>)) =>
            /\ Refused(r)
            /\ resp[r].error = <<"documents array is required and must not be empty">>

\* C16 witness: a Delete of kb1 with an empty documents list, refused
C16_Witness ==
    \E r \in Requests :
        /\ Readable(r)
        /\ req[r].method = "DELETE"
        /\ req[r].ragId = "kb1"
        /\ req[r].documents = JsArray(<<>>)
        /\ Refused(r)

\* the last call of r, once it was answered non-2xx
LastRemoteStatus(r) ==
    IF Len(calls[r]) > 0 /\ calls[r][Len(calls[r])].answer.kind = "http"
                         /\ ~Ok(calls[r][Len(calls[r])].answer.status)
    THEN {calls[r][Len(calls[r])].answer.status}
    ELSE {}

\* C17: every response is a success (success=true, 200, no error) or an
\* error (success=false, a non-empty error text) whose status is 400 for a
\* validation failure, 500, or the status the remote answered; none has
\* success=false with 200 and none has success=true with an error status.
C17_ResponseShape ==
    \A r \in Requests :
        Done(r) =>
            /\ "success" \in resp[r].keys
            /\ resp[r].success = TRUE =>
                   /\ resp[r].status = 200
                   /\ "error" \notin resp[r].keys
                   /\ resp[r].error = <<>>
            /\ resp[r].success = FALSE =>
                   /\ "error" \in resp[r].keys
                   /\ resp[r].error # <<>>
                   /\ resp[r].error[1] # ""
                   /\ ~Ok(resp[r].status)
                   /\ resp[r].status \in {400, 500} \cup LastRemoteStatus(r)
                   /\ resp[r].status = 400 => (calls[r] = <<>> /\ Readable(r))
                   /\ LYZR_API_KEY # "key" => resp[r].status = 500

\* C17 witness: a Delete answered 404 by the remote, reported as an error
\* with status 404
C17_Witness ==
    \E r \in Requests :
        /\ Done(r)
        /\ req[r].method = "DELETE"
        /\ LastRemoteStatus(r) = {404}
        /\ resp[r].success = FALSE
        /\ resp[r].status = 404

\* the exception raised inside the handler of r after the credential check,
\* as the set of its messages (empty when none was raised): an unreadable
\* request body, a rejected fetch, an unreadable error body, a remote body
\* that is not JSON or is null, a path or name that is not a string
Raised(r) ==
    LET n == Len(calls[r])
        c == calls[r][n]
    IN  IF LYZR_API_KEY # "key" \/ ~Started(r) THEN {}
        ELSE IF ~req[r].readable
        THEN IF req[r].method = "DELETE" THEN {NotJson} ELSE {TypeErrorMessage}
        ELSE IF n = 0
        THEN IF /\ req[r].method = "DELETE"
                /\ req[r].ragId \in {"kb1", "kb2"}
                /\ req[r].documents.t = "array"
                /\ \E i \in 1..Len(req[r].documents.items) :
                       req[r].documents.items[i] = NotAString
             THEN {TypeErrorMessage} ELSE {}
        ELSE IF c.answer.kind = "throw" THEN {FetchFailed}
        ELSE IF c.answer.kind = "http" /\ ~Ok(c.answer.status)
        THEN IF /\ c.answer.text = Unreadable
                /\ c.op \in {"list", "parse", "train"}
                /\ ~(c.op = "list" /\ c.answer.status = 404)
             THEN {FetchFailed} ELSE {}
        ELSE IF c.answer.kind = "http" /\ c.op \in {"list", "parse"}
        THEN IF c.answer.json.t = "invalid" THEN {NotJson}
             ELSE IF c.op = "parse" /\ c.answer.json.t = "null" THEN {TypeErrorMessage}
             ELSE IF /\ c.op = "list"
                     /\ \E i \in 1..Len(c.answer.json.items) :
                            c.answer.json.items[i] = NotAString
             THEN {TypeErrorMessage} ELSE {}
        ELSE {}

\* the error text of the catch block of each handler
CatchError(method) ==
    CASE method = "GET" -> <<"Failed to fetch documents">>
      [] method = "POST" -> <<"Failed to upload and train document">>
      [] OTHER -> <<"Failed to delete documents">>

\* C18: an exception raised inside a handler after the credential check is
\* answered with 500, success=false, the catch text of that handler and the
\* message of the exception in details; a handler that ended has a response.
C18_ExceptionsCaught ==
    \A r \in Requests :
        /\ Raised(r) # {} =>
               /\ Done(r)
               /\ resp[r].success = FALSE
               /\ resp[r].status = 500
               /\ resp[r].keys = {"success", "error", "details"}
               /\ resp[r].error = CatchError(req[r].method)
               /\ Raised(r) = {resp[r].details}
        /\ Done(r) => (resp[r].status # 0 /\ resp[r].keys # {})

\* C18 witness: the train call of an upload was rejected; the upload ended
\* with 500 and the message of the rejection
C18_Witness ==
    \E r \in Requests :
        /\ Done(r)
        /\ Len(calls[r]) = 2
        /\ calls[r][2].answer.kind = "throw"
        /\ resp[r].status = 500
        /\ resp[r].details = FetchFailed

\* C19 as stated: every successful List response holds documents, the
\* ragId of the request and a timestamp.
C19_ListSuccessFields ==
    \A r \in Requests :
        (Done(r) /\ req[r].method = "GET" /\ resp[r].success = TRUE) =>
            /\ {"documents", "ragId", "timestamp"} \subseteq resp[r].keys
            /\ resp[r].ragId = req[r].ragId
            /\ resp[r].timestamp # Absent

\* C19 amended: a successful List response made from a 2xx listing holds
\* documents, the ragId of the request and a timestamp, also when the
\* listing is empty; the successful response to a 404 of the listing holds
\* success and an empty documents list only.
C19_ListSuccessFieldsUnless404 ==
    \A r \in Requests :
        (Done(r) /\ req[r].method = "GET" /\ resp[r].success = TRUE) =>
            /\ Len(calls[r]) = 1
            /\ Succeeded(calls[r][1]) =>
                   /\ resp[r].keys = {"success", "documents", "ragId", "timestamp"}
                   /\ resp[r].ragId = req[r].ragId
                   /\ resp[r].timestamp # Absent
            /\ ~Succeeded(calls[r][1]) =>
                   /\ calls[r][1].answer.status = 404
                   /\ resp[r].keys = {"success", "documents"}
                   /\ resp[r].documents = <<>>
                   /\ resp[r].ragId = Absent
                   /\ resp[r].timestamp = Absent

\* C19 witness: a List of kb2 whose listing answered 2xx with an empty
\* array
C19_Witness ==
    \E r \in Requests :
        /\ Done(r)
        /\ req[r].method = "GET"
        /\ Len(calls[r]) = 1
        /\ Succeeded(calls[r][1])
        /\ calls[r][1].answer.json = JsArray(<<>>)
        /\ resp[r].success = TRUE
        /\ resp[r].documents = <<>>
        /\ resp[r].ragId = "kb2"
        /\ resp[r].timestamp # Absent

\* the calls of r that have not completed
Outstanding(r) == {i \in 1..Len(calls[r]) : calls[r][i].answer.kind = "none"}

\* C20: a List makes at most one remote call, a Delete at most one, an
\* UploadAndTrain at most two (parse, then train once parse completed); at
\* most one call of a request is outstanding at a time, and a request that
\* has responded has none outstanding.
C20_SequentialCalls ==
    \A r \in Requests :
        /\ Cardinality(Outstanding(r)) <= 1
        /\ \A i \in Outstanding(r) : i = Len(calls[r])
        /\ Done(r) => Outstanding(r) = {}
        /\ (Started(r) /\ ~Done(r)) => Outstanding(r) # {}
        /\ ~Started(r) => calls[r] = <<>>
        /\ req[r].method = "GET" =>
               (Len(calls[r]) <= 1 /\ \A i \in 1..Len(calls[r]) : calls[r][i].op = "list")
        /\ req[r].method = "DELETE" =>
               (Len(calls[r]) <= 1 /\ \A i \in 1..Len(calls[r]) : calls[r][i].op = "delete")
        /\ req[r].method = "POST" =>
               /\ Len(calls[r]) <= 2
               /\ Len(calls[r]) >= 1 => calls[r][1].op = "parse"
               /\ Len(calls[r]) = 2 => calls[r][2].op = "train"

\* C20 witness: an upload whose parse call has completed and whose train
\* call is outstanding
C20_Witness ==
    \E r \in Requests :
        /\ pc[r] = "train"
        /\ Len(calls[r]) = 2
        /\ Succeeded(calls[r][1])
        /\ Outstanding(r) = {2}

\* what the answer ans of the remote listing determines as documents: one
\* per path, in order, named by the path without its prefix
ListingOf(ans) ==
    IF ans.kind = "http" /\ Ok(ans.status) /\ ans.json.t = "array"
    THEN [i \in 1..Len(ans.json.items) |->
            [fileName |-> WithoutStorage(ans.json.items[i]),
             fileType |-> FileTypeOf(WithoutStorage(ans.json.items[i])),
             status |-> "active"]]
    ELSE <<>>

\* C21: the proxy keeps no document state between requests: whatever other
\* requests were handled before or are handled at the same time, a List
\* that succeeds made exactly one listing call, for its own ragId, and its
\* documents are the ones the answer of that call determines.
C21_ListFromRemoteOnly ==
    \A r \in DOMAIN pc :
        (Done(r) /\ req[r].method = "GET" /\ resp[r].success) =>
            /\ Len(calls[r]) = 1
            /\ calls[r][1].op = "list"
            /\ calls[r][1].target = req[r].ragId
            /\ calls[r][1].answer.kind = "http"
            /\ resp[r].documents = ListingOf(calls[r][1].answer)

\* C21 witness: while one request holds the response of a Delete of a.pdf
\* that succeeded, a List of the other request reports a.pdf, because the
\* remote listing still holds it
C21_Witness ==
    \E q, r \in DOMAIN pc :
        /\ q # r
        /\ Done(q) /\ req[q].method = "DELETE" /\ resp[q].success
        /\ req[q].documents.items = <<A_PDF>>
        /\ ListedPaths(r)
        /\ Len(resp[r].documents) = 1
        /\ resp[r].documents[1].fileName = A_PDF

\* the input of operation op is invalid in one of the ways C22 lists
InvalidInput(op) ==
    \/ op.ragId \in {NoRagId, ""}
    \/ op.kind = "upload" /\ op.file.type \notin SupportedMimeTypes
    \/ op.kind = "remove"
       /\ (op.documentNames.t # "array" \/ Len(op.documentNames.items) = 0)

\* C22: the wrappers reject invalid input locally: with an empty ragId
\* (all three), an unsupported MIME type (upload) or documents that are
\* missing, no list or empty (delete) the wrapper returns success=false
\* with an error and has sent no HTTP request; with valid input it sends
\* one.
C22_InvalidInputRejectedLocally ==
    \A o \in Operations :
        ops[o].state # "idle" =>
            IF InvalidInput(ops[o])
            THEN /\ ops[o].state = "done"
                 /\ ops[o].sent = 0
                 /\ ops[o].result.success = FALSE
                 /\ ops[o].result.error # <<>>
            ELSE ops[o].sent = 1

\* C22 witness: an upload of a file of type constructor, which the route
\* itself would let through, has been refused without a request
C22_Witness ==
    \E o \in Operations :
        /\ ops[o].kind = "upload"
        /\ ops[o].ragId = "kb1"
        /\ ops[o].file.type = "constructor"
        /\ ops[o].state = "done"
        /\ ops[o].sent = 0
        /\ ops[o].result.success = FALSE

\* the documents of docs whose fileName is none of names
Kept(docs, names) ==
    SelectSeq(docs, LAMBDA doc : \A i \in 1..Len(names) : names[i] # doc.fileName)

\* C23: the frame of the hook.  A step that starts an operation clears
\* error and leaves documents alone.  A step that ends an operation: a
\* removeDocuments that succeeded leaves exactly the previous documents
\* whose fileName is not among the deleted names, and null stays null; a
\* failed removeDocuments, a failed fetchDocuments and every uploadDocument
\* leave documents unchanged; error is set, to the error of the result,
\* exactly when the result has success=false.
C23_HookFrame ==
    [][\A o \in Operations :
         /\ (ops[o].state = "idle" /\ ops'[o].state = "inflight") =>
                /\ kbError' = NoError
                /\ kbDocuments' = kbDocuments
         /\ (ops[o].state # "done" /\ ops'[o].state = "done") =>
                /\ IF ops'[o].kind = "remove" /\ ops'[o].result.success
                   THEN kbDocuments' =
                            IF kbDocuments.known
                            THEN KnownDocuments(Kept(kbDocuments.items,
                                                     ops'[o].documentNames.items))
                            ELSE NoDocuments
                   ELSE IF ops'[o].kind = "fetch" /\ ops'[o].result.success
                   THEN kbDocuments'.known
                   ELSE kbDocuments' = kbDocuments
                /\ IF ops'[o].result.success
                   THEN kbError' = kbError
                   ELSE /\ kbError' # NoError
                        /\ ops'[o].result.error # <<>> => kbError' = ops'[o].result.error
      ]_vars

\* C23 witness: a removeDocuments of a.pdf that succeeded has left b.DOCX of
\* the two documents the list held
C23_Witness ==
    \E o \in Operations :
        /\ ops[o].kind = "remove"
        /\ ops[o].state = "done"
        /\ ops[o].result.success
        /\ ops[o].documentNames.items = <<A_PDF>>
        /\ kbDocuments.known
        /\ Len(kbDocuments.items) = 1
        /\ kbDocuments.items[1].fileName = B_DOCX

\* C24: loading is true exactly while at least one operation of the hook is
\* in flight.
C24_LoadingIffInFlight ==
    kbLoading <=> (\E o \in Operations : ops[o].state = "inflight")

\* the names List reports
ReportedNames(docs) == [i \in 1..Len(docs) |-> docs[i].fileName]

\* l is a List that reported the paths the remote listing held, d a Delete
\* of the names l reported that reached the remote
RoundTrip(l, d) ==
    /\ ops[l].kind = "fetch" /\ ops[l].state = "done"
    /\ ops[l].result.success /\ ops[l].reached
    /\ Len(ops[l].remote) > 0
    /\ ops[d].kind = "remove" /\ ops[d].state = "done" /\ ops[d].reached
    /\ ops[d].documentNames = JsArray(ReportedNames(ops[l].result.documents))

\* C25 as stated: for every path p of the remote listing, the delete call
\* made for the fileName List reported for p carries exactly p.
C25_RoundTripIdentity ==
    \A l, d \in Operations :
        RoundTrip(l, d) =>
            /\ Len(ops[d].remote) = Len(ops[l].remote)
            /\ \A i \in 1..Len(ops[l].remote) : ops[d].remote[i] = ops[l].remote[i]

\* C25: the round trip is the identity on the paths with exactly one
\* storage/ prefix; a path without the prefix comes back with one, and a
\* path with several comes back with one less.
C25_RoundTripOnePrefix ==
    \A l, d \in Operations :
        RoundTrip(l, d) =>
            /\ Len(ops[d].remote) = Len(ops[l].remote)
            /\ \A i \in 1..Len(ops[l].remote) :
                  LET p == ops[l].remote[i]
                  IN  ops[d].remote[i] =
                          IF PrefixCount(p) = 1 THEN p
                          ELSE IF PrefixCount(p) = 0 THEN STORAGE \o p
                          ELSE SubSeq(p, 9, Len(p))

\* C25 witness: the listing held storage/a.pdf and storage/b.DOCX, and the
\* delete of the two reported names carried the same two paths
C25_Witness ==
    \E l, d \in Operations :
        /\ RoundTrip(l, d)
        /\ ops[l].remote = <<STORAGE \o A_PDF, STORAGE \o B_DOCX>>
        /\ ops[d].remote = ops[l].remote

\* the statement holds nothing but blanks
Blank(text) == \A i \in 1..Len(text) : text[i] = " "

\* C26: after every step loading is true exactly while a request to
\* /api/agent is in flight, and at most one is; in particular it is false
\* after every outcome of the request.  While loading, the handler that
\* ran last is not Reset.  A request starts only from a statement that is
\* not blank, and the Calculate that refuses a blank statement changes no
\* state of the dashboard.
C26_LoadingGuardsRequest ==
    [][/\ loading' <=> agent'.inflight = 1
       /\ agent'.inflight \in {0, 1}
       /\ agent'.inflight < agent.inflight => ~loading'
       /\ loading' => handled'.handler # "handleReset"
       /\ agent'.inflight > agent.inflight => (~loading /\ ~Blank(problemStatement))
       /\ (Blank(problemStatement) /\ handled'.handler = "handleCalculate") =>
              /\ handled'.alert = "Please enter a problem statement"
              /\ UNCHANGED <<problemStatement, monthlyQueries, conversationTurns,
                             modelPreference, loading, result, showDetails,
                             expandedSection, agent>>
      ]_vars

\* C26 witness: after a request that raised, a second request is in
\* flight and loading again, while the statement, edited since Calculate,
\* is blank
C26_Witness ==
    /\ loading
    /\ agent.inflight = 1
    /\ problemStatement = <<" ", " ">>
    /\ agent.outcome.kind = "throw"

\* the outcome is a response that succeeded, with an estimate in it
Calculated(outcome) ==
    /\ outcome.kind = "json"
    /\ outcome.success
    /\ outcome.response.value \in Estimates

\* C27: result changes only in a step that handles a response that
\* succeeded or in Reset; every other outcome of a request (a response
\* without success or without payload, a request that raised, a string
\* payload that is no JSON) leaves result unchanged and showDetails false;
\* showDetails becomes true only when a response succeeded, with the
\* estimate of that response as result; Reset sets showDetails false and
\* restores the sample estimate and the default inputs.
C27_ResultOnlyOnSuccessOrReset ==
    [][/\ result' # result =>
              \/ handled'.handler = "handleReset"
              \/ /\ handled'.handler = "handleCalculateSettled"
                 /\ agent'.inflight < agent.inflight
                 /\ Calculated(agent'.outcome)
       /\ (agent'.inflight < agent.inflight /\ ~Calculated(agent'.outcome)) =>
              /\ result' = result
              /\ ~showDetails'
       /\ (agent'.inflight < agent.inflight /\ Calculated(agent'.outcome)) =>
              /\ result' = agent'.outcome.response.value
              /\ showDetails'
       /\ (showDetails' /\ ~showDetails) =>
              /\ agent'.inflight < agent.inflight
              /\ Calculated(agent'.outcome)
       /\ handled'.handler = "handleReset" =>
              /\ ~showDetails'
              /\ result' = SAMPLE_RESULT
              /\ problemStatement' = SAMPLE_PROBLEM
              /\ monthlyQueries' = 1000
              /\ conversationTurns' = 3
              /\ modelPreference' = "gpt-4o-mini"
      ]_vars

\* C27 witness: after a calculation that succeeded, a second request ended
\* in a string payload that is no JSON: the estimate of the first is still
\* stored and the details are hidden
C27_Witness ==
    /\ agent.inflight = 0
    /\ agent.outcome.kind = "json"
    /\ agent.outcome.success
    /\ agent.outcome.response = StringPayload("not json", "none")
    /\ result = "estimate2"
    /\ ~showDetails
    /\ ~loading

====
